---- MODULE Spec2Model ----
(***************************************************************************)
(* Model of main.py: a FastAPI application with four read-only handlers    *)
(* (root, health_check, get_status, get_metrics), the framework's docs     *)
(* route and a handler registered for status code 404.                     *)
(*                                                                         *)
(* Time is counted in ticks of the clock's resolution; Resolution ticks    *)
(* make one second.  A datetime is the number of ticks the wall clock      *)
(* shows, a timedelta is a (signed) number of ticks.  Text is a sequence   *)
(* of one-character strings wherever the code formats a number, so that    *)
(* the formatting is modelled digit by digit.                              *)
(*                                                                         *)
(* datetime.now() reads the host's naive local wall clock.  Real time only *)
(* moves forward (Tick), but the host may set the wall clock back          *)
(* (ClockSetBack); elapsed keeps the real time, which the program never    *)
(* reads, so that the delay between two requests can be stated.            *)
(*                                                                         *)
(* The handlers are coroutines without an await: once started, a handler   *)
(* runs to its end, and the requests in flight are handled in any order.   *)
(***************************************************************************)
EXTENDS Integers, Sequences

(* ------------------------------ bounds --------------------------------- *)
\* ticks of the wall clock per second (datetime resolves microseconds)
Resolution == 4
\* requests one behaviour issues
MaxRequests == 2
\* clock events (time passing, clock set back) one behaviour contains
MaxClockEvents == 2

(* ------------------------- program constants --------------------------- *)
SecondsPerHour == 3600
SecondsPerMinute == 60

VARIABLES
    clock,       \* what datetime.now() returns: the host's local wall clock
    elapsed,     \* real time passed since the module was imported
    events,      \* number of clock events so far
    start_time,  \* module-level start_time
    environ,     \* os.environ
    reqs,        \* the requests issued so far, in arrival order
    handled      \* request ids in the order their handlers ran

vars == <<clock, elapsed, events, start_time, environ, reqs, handled>>

(* ------------------------------- text ---------------------------------- *)
DigitChar == <<"0", "1", "2", "3", "4", "5", "6", "7", "8", "9">>

RECURSIVE Digits(_)
\* decimal digits of a natural number, most significant first
Digits(n) ==
    IF n < 10 THEN <<DigitChar[n + 1]>>
    ELSE Append(Digits(n \div 10), DigitChar[(n % 10) + 1])

Abs(n) == IF n < 0 THEN -n ELSE n

\* round-half-to-even of the non-negative rational n / d
RoundHalfEven(n, d) ==
    LET q == n \div d
        r == n % d
    IN  IF 2 * r > d THEN q + 1
        ELSE IF 2 * r < d THEN q
        ELSE IF q % 2 = 0 THEN q ELSE q + 1

\* format(x, ".0f") for the float x = n / d: sign, then the digits of |x|
\* rounded half-to-even to an integer
Format0f(n, d) ==
    (IF n < 0 THEN <<"-">> ELSE <<>>) \o Digits(RoundHalfEven(Abs(n), d))

\* datetime.isoformat() without the date part: whole seconds, and the
\* fraction only when it is not zero
isoformat(t) ==
    Digits(t \div Resolution)
        \o (IF t % Resolution = 0 THEN <<>> ELSE <<".">> \o Digits(t % Resolution))

(* ------------------------------- host ---------------------------------- *)
\* sys.version_info, sys.version, platform.platform(), platform.architecture()
sys_version_info == [major |-> 3, minor |-> 11, micro |-> 4]
sys_version == "3.11.4 (main) [GCC 12.2.0]"
platform_platform == "Linux-6.1-x86_64-with-glibc2.36"
platform_architecture == <<"64bit", "ELF">>

\* environments the process may be started in
Environments ==
    { [k \in {"PATH"} |-> "/usr/bin"],
      [k \in {"ENVIRONMENT"} |-> "production"],
      [k \in {"ENVIRONMENT", "PATH"} |-> IF k = "PATH" THEN "/usr/bin" ELSE ""] }

\* os.getenv(key) or default: an empty value counts as unset
getenv_or_default(env, key, default) ==
    IF key \in DOMAIN env /\ env[key] # "" THEN env[key] ELSE default

\* os.getenv(key, default)
getenv(env, key, default) == IF key \in DOMAIN env THEN env[key] ELSE default

(* ----------------------------- handlers -------------------------------- *)
\* a handler's outcome: it returns a body, or it raises an exception
Return(code, body) == [kind |-> "return", status_code |-> code, body |-> body]
Raise(exc) == [kind |-> "raise", exc |-> exc]
HTTPException(code, detail) ==
    [type |-> "HTTPException", status_code |-> code, detail |-> detail]

\* root() that also reports the number of requests served before it
root_counting ==
    Return(200,
        [message |-> "Professional Python CI/CD Demo API",
         version |-> "1.0.0",
         features |-> <<"Health Monitoring">>,
         endpoints |-> [docs |-> "/docs", health |-> "/health",
                        status |-> "/api/status", metrics |-> "/api/metrics"],
         tech_stack |-> <<"FastAPI">>,
         requests_total |-> Len(handled)])

\* root(); the emoji that start the message and each feature are left out
root ==
    Return(200,
        [message |-> "Professional Python CI/CD Demo API",
         version |-> "1.0.0",
         features |-> <<"Automated Testing with Pytest",
                        "Docker Containerization",
                        "Code Quality with Black & Flake8",
                        "Security Scanning with Bandit",
                        "Health Monitoring",
                        "Auto-generated API Documentation",
                        "FastAPI Async Performance">>,
         endpoints |-> [docs |-> "/docs", health |-> "/health",
                        status |-> "/api/status", metrics |-> "/api/metrics"],
         tech_stack |-> <<"Python 3.11+", "FastAPI", "Uvicorn", "Pydantic",
                          "Docker", "GitHub Actions">>])

\* health_check(), with current_time the reading of datetime.now()
health_check(current_time, start, env) ==
    LET uptime == current_time - start
    IN  Return(200,
            [status |-> "healthy",
             timestamp |-> isoformat(current_time),
             uptime |-> uptime,
             environment |-> getenv(env, "ENVIRONMENT", "development"),
             python_version |-> sys_version])

\* get_status()
get_status(now) ==
    Return(200,
        [service |-> "python-demo-app",
         status |-> "running",
         timestamp |-> isoformat(now),
         version |-> "1.0.0",
         python_version |-> Digits(sys_version_info.major) \o <<".">>
                                \o Digits(sys_version_info.minor) \o <<".">>
                                \o Digits(sys_version_info.micro),
         platform |-> platform_platform])

\* the f-string of get_metrics: uptime_seconds is u / Resolution seconds
uptime_human(u) ==
    LET hour == SecondsPerHour * Resolution
        minute == SecondsPerMinute * Resolution
    IN  Format0f(u \div hour, 1) \o <<"h", " ">>
            \o Format0f((u % hour) \div minute, 1) \o <<"m", " ">>
            \o Format0f(u % minute, Resolution) \o <<"s">>

\* get_metrics()
get_metrics(current_time, start) ==
    LET uptime_seconds == current_time - start
    IN  Return(200,
            [uptime_seconds |-> uptime_seconds,
             uptime_human |-> uptime_human(uptime_seconds),
             memory_info |-> [available |-> "simulation", used |-> "simulation"],
             requests_total |-> "simulation",
             python_info |-> [version |-> sys_version,
                              platform |-> platform_platform,
                              architecture |-> platform_architecture[1]]])

NotFoundDetail ==
    [error |-> "Endpoint not found",
     available_endpoints |-> <<"/", "/health", "/api/status", "/api/metrics", "/docs">>,
     documentation |-> "/docs"]

\* not_found_handler(request, exc): it raises, it does not return a response
not_found_handler == Raise(HTTPException(404, NotFoundDetail))

(* ----------------------------- framework ------------------------------- *)
\* the routes of app: the four decorated handlers and the documentation
\* page FastAPI adds for docs_url (the redoc_url page is served the same way)
HandlerRoutes == {"/", "/health", "/api/status", "/api/metrics"}
DocRoutes == {"/docs"}
Routes == HandlerRoutes \cup DocRoutes
\* the paths requests are made to
Paths == Routes \cup {"/nonexistent"}

\* status codes with a handler registered by @app.exception_handler
StatusHandlers == {404}

\* the router, for a path no route matches
RouterNotFound == Raise(HTTPException(404, "Not Found"))

\* the exception middleware: an HTTPException whose status code has a
\* registered handler is given to that handler and the handler's outcome is
\* the outcome (an exception the handler raises is not caught again); any
\* other HTTPException becomes the default response {"detail": exc.detail}
ExceptionMiddleware(outcome) ==
    IF outcome.kind = "return" THEN outcome
    ELSE IF outcome.exc.status_code \in StatusHandlers THEN not_found_handler
    ELSE Return(outcome.exc.status_code, [detail |-> outcome.exc.detail])

\* the server error middleware, outermost: an exception that reaches it is
\* answered with the plain text 500 response and raised again to the server
ServerErrorMiddleware(outcome) ==
    IF outcome.kind = "return"
    THEN [status_code |-> outcome.status_code, body |-> outcome.body, raised |-> FALSE]
    ELSE [status_code |-> 500, body |-> [text |-> "Internal Server Error"],
          raised |-> TRUE]

\* the application called with an outcome of the router
App(outcome) == ServerErrorMiddleware(ExceptionMiddleware(outcome))

(* ------------------------------- state --------------------------------- *)
NoResponse == [status_code |-> 0, body |-> [pending |-> TRUE], raised |-> FALSE]

\* the wall clock reading when the module is imported
BootClock == SecondsPerHour * Resolution

\* how much time passes in one step: one tick less than a minute, or an hour
Deltas == {SecondsPerMinute * Resolution - 1, SecondsPerHour * Resolution}

\* how far the wall clock is set back in one step: the hour of a daylight
\* saving change
SetBacks == {SecondsPerHour * Resolution}

Init ==
    /\ clock = BootClock
    /\ elapsed = 0
    /\ events = 0
    /\ start_time = clock
    /\ environ \in Environments
    /\ reqs = <<>>
    /\ handled = <<>>

\* a client sends a request
Arrive(path) ==
    /\ Len(reqs) < MaxRequests
    /\ reqs' = Append(reqs, [path |-> path, stage |-> "received",
                             response |-> NoResponse, at |-> 0])
    /\ UNCHANGED <<clock, elapsed, events, start_time, environ, handled>>

\* request i is routed, its response is built and sent to the client
Respond(i, outcome) ==
    /\ reqs' = [reqs EXCEPT ![i] = [@ EXCEPT !.stage = "handled",
                                              !.response = App(outcome),
                                              !.at = elapsed]]
    /\ handled' = Append(handled, i)
    /\ UNCHANGED <<clock, elapsed, events>>

Received(i, path) ==
    /\ i \in 1..Len(reqs)
    /\ reqs[i].stage = "received"
    /\ reqs[i].path = path

\* no handler assigns a module-level name or os.environ
GetRoot(i) ==
    /\ Received(i, "/")
    /\ Respond(i, root)
    /\ UNCHANGED <<start_time, environ>>

\* GetHealth with a handler that captures start_time again
GetHealth_recapture(i) ==
    /\ Received(i, "/health")
    /\ Respond(i, health_check(clock, clock, environ))
    /\ start_time' = clock
    /\ UNCHANGED environ

GetHealth(i) ==
    /\ Received(i, "/health")
    /\ Respond(i, health_check(clock, start_time, environ))
    /\ UNCHANGED <<start_time, environ>>

GetStatus(i) ==
    /\ Received(i, "/api/status")
    /\ Respond(i, get_status(clock))
    /\ UNCHANGED <<start_time, environ>>

\* GetMetrics with a handler that records its platform in os.environ
GetMetrics_setenv(i) ==
    /\ Received(i, "/api/metrics")
    /\ Respond(i, get_metrics(clock, start_time))
    /\ environ' = [k \in DOMAIN environ \cup {"PLATFORM"} |->
                       IF k = "PLATFORM" THEN platform_platform ELSE environ[k]]
    /\ UNCHANGED start_time

GetMetrics(i) ==
    /\ Received(i, "/api/metrics")
    /\ Respond(i, get_metrics(clock, start_time))
    /\ UNCHANGED <<start_time, environ>>

\* the documentation page, served by the framework
GetDocs(i) ==
    /\ \E p \in DocRoutes : Received(i, p)
    /\ Respond(i, Return(200, [html |-> reqs[i].path]))
    /\ UNCHANGED <<start_time, environ>>

\* no route matches the path
NotFound(i) ==
    /\ i \in 1..Len(reqs)
    /\ reqs[i].stage = "received"
    /\ reqs[i].path \notin Routes
    /\ Respond(i, RouterNotFound)
    /\ UNCHANGED <<start_time, environ>>

\* time passes
Tick(d) ==
    /\ events < MaxClockEvents
    /\ events' = events + 1
    /\ elapsed' = elapsed + d
    /\ clock' = clock + d
    /\ UNCHANGED <<start_time, environ, reqs, handled>>

\* the host's wall clock is set back (end of daylight saving time in the
\* local zone, a clock synchronisation step, an administrator)
ClockSetBack(d) ==
    /\ events < MaxClockEvents
    /\ clock - d >= 0
    /\ events' = events + 1
    /\ clock' = clock - d
    /\ UNCHANGED <<elapsed, start_time, environ, reqs, handled>>

Next ==
    \/ \E p \in Paths : Arrive(p)
    \/ \E i \in 1..MaxRequests : GetRoot(i)
    \/ \E i \in 1..MaxRequests : GetHealth(i)
    \/ \E i \in 1..MaxRequests : GetStatus(i)
    \/ \E i \in 1..MaxRequests : GetMetrics(i)
    \/ \E i \in 1..MaxRequests : GetDocs(i)
    \/ \E i \in 1..MaxRequests : NotFound(i)
    \/ \E d \in Deltas : Tick(d)
    \/ \E d \in SetBacks : ClockSetBack(d)

Spec == Init /\ [][Next]_vars

(* ------------------------------ claims --------------------------------- *)
\* positions in handled of the requests made to one of the paths
Positions(paths) == {k \in 1..Len(handled) : reqs[handled[k]].path \in paths}
ResponseAt(k) == reqs[handled[k]].response
HandledAt(k) == reqs[handled[k]].at
\* the uptime a /health or /api/metrics response reports
UptimeAt(k) ==
    IF reqs[handled[k]].path = "/health" THEN ResponseAt(k).body.uptime
    ELSE ResponseAt(k).body.uptime_seconds

IsDigits(s) == Len(s) > 0 /\ \A k \in 1..Len(s) : \E d \in 1..10 : s[k] = DigitChar[d]

RECURSIVE DigitsValue(_)
DigitsValue(s) ==
    IF s = <<>> THEN 0
    ELSE 10 * DigitsValue(SubSeq(s, 1, Len(s) - 1))
            + ((CHOOSE d \in 1..10 : s[Len(s)] = DigitChar[d]) - 1)

\* the ways to read s as "{h}h {m}m {s}s" with h, m and s digit strings:
\* the positions of the "h" and of the "m"
HMSSplits(s) ==
    {ij \in (1..Len(s)) \X (1..Len(s)) :
        /\ ij[1] + 1 < ij[2]
        /\ ij[2] + 1 < Len(s)
        /\ s[ij[1]] = "h" /\ s[ij[1] + 1] = " "
        /\ s[ij[2]] = "m" /\ s[ij[2] + 1] = " "
        /\ s[Len(s)] = "s"
        /\ IsDigits(SubSeq(s, 1, ij[1] - 1))
        /\ IsDigits(SubSeq(s, ij[1] + 2, ij[2] - 1))
        /\ IsDigits(SubSeq(s, ij[2] + 2, Len(s) - 1))}

HoursOf(s, ij) == DigitsValue(SubSeq(s, 1, ij[1] - 1))
MinutesOf(s, ij) == DigitsValue(SubSeq(s, ij[1] + 2, ij[2] - 1))
SecondsOf(s, ij) == DigitsValue(SubSeq(s, ij[2] + 2, Len(s) - 1))

\* C1: a request whose path matches no route is answered with status 404 and
\* the body {"detail": {error, available_endpoints, documentation}}, as a
\* completed response: no exception reaches the server.
C1_NotFoundResponse ==
    \A k \in 1..Len(handled) :
        reqs[handled[k]].path \notin Routes =>
            /\ ResponseAt(k).status_code = 404
            /\ ~ResponseAt(k).raised
            /\ ResponseAt(k).body = [detail |-> NotFoundDetail]

\* C2: of two requests to /health or /api/metrics, the one handled later
\* never reports a smaller uptime than the one handled earlier.
C2_UptimeNonDecreasing ==
    \A j, k \in Positions({"/health", "/api/metrics"}) :
        j < k => UptimeAt(j) <= UptimeAt(k)

\* C3: every /health response has status "healthy" and uptime >= 0, and
\* every /api/metrics response has uptime_seconds >= 0.
C3_UptimeNonNegative ==
    /\ \A k \in Positions({"/health"}) :
        ResponseAt(k).body.status = "healthy" /\ ResponseAt(k).body.uptime >= 0
    /\ \A k \in Positions({"/api/metrics"}) :
        ResponseAt(k).body.uptime_seconds >= 0

\* C4: of two /health requests, when the second is handled a positive
\* amount of time after the first, it reports a strictly greater uptime.
C4_UptimeStrictlyIncreasing ==
    \A j, k \in Positions({"/health"}) :
        (j < k /\ HandledAt(j) < HandledAt(k)) => UptimeAt(j) < UptimeAt(k)

HealthFields == {"status", "timestamp", "uptime", "environment", "python_version"}

\* C5: every /health request, however the handling of the requests in
\* flight is interleaved, is answered with status 200 and a body with the
\* five HealthStatus fields, and start_time keeps the value it had when the
\* process started.
C5_ConcurrentHealth ==
    /\ \A k \in Positions({"/health"}) :
        /\ ResponseAt(k).status_code = 200
        /\ ~ResponseAt(k).raised
        /\ DOMAIN ResponseAt(k).body = HealthFields
        /\ ResponseAt(k).body.status = "healthy"
        /\ ResponseAt(k).body.uptime \in Int
    /\ start_time = BootClock

\* several /health requests were in flight together and were not handled in
\* the order they arrived
C5_Witness ==
    /\ Len(reqs) >= 2
    /\ Len(handled) = Len(reqs)
    /\ \A i \in 1..Len(reqs) : reqs[i].path = "/health"
    /\ handled[1] # 1

\* C6: uptime_human of every /api/metrics response reads "{h}h {m}m {s}s"
\* with h, m and s non-negative integers in decimal digits.
C6_UptimeHumanForm ==
    \A k \in Positions({"/api/metrics"}) :
        HMSSplits(ResponseAt(k).body.uptime_human) # {}

\* C7: the environment of every /health response is the value of the
\* ENVIRONMENT variable when it is set, and "development" when it is not.
C7_Environment ==
    \A k \in Positions({"/health"}) :
        /\ "ENVIRONMENT" \in DOMAIN environ
            => ResponseAt(k).body.environment = environ["ENVIRONMENT"]
        /\ "ENVIRONMENT" \notin DOMAIN environ
            => ResponseAt(k).body.environment = "development"

\* a /health request was answered in a process whose ENVIRONMENT is set,
\* to the empty string
C7_Witness ==
    /\ "ENVIRONMENT" \in DOMAIN environ
    /\ environ["ENVIRONMENT"] = ""
    /\ Positions({"/health"}) # {}

\* C8: every response of GET / has status 200, version "1.0.0" and
\* non-empty features and tech_stack, and all of them have the same body
\* whatever was handled before.
C8_RootFixed ==
    \A j, k \in Positions({"/"}) :
        /\ ResponseAt(k).status_code = 200
        /\ ResponseAt(k).body.version = "1.0.0"
        /\ Len(ResponseAt(k).body.features) > 0
        /\ Len(ResponseAt(k).body.tech_stack) > 0
        /\ ResponseAt(j).body = ResponseAt(k).body

\* GET / was answered first of all and again after another request, at a
\* later time
C8_Witness ==
    /\ Len(handled) >= 2
    /\ reqs[handled[1]].path = "/"
    /\ reqs[handled[Len(handled)]].path = "/"
    /\ HandledAt(1) < HandledAt(Len(handled))

\* C9: no step of the process changes start_time or os.environ.
C9_NoSharedWrites == [][start_time' = start_time /\ environ' = environ]_vars

\* requests to /health and to /api/metrics were handled at a time when the
\* clock no longer shows start_time
C9_Witness ==
    /\ Positions({"/health"}) # {}
    /\ Positions({"/api/metrics"}) # {}
    /\ clock # start_time
    /\ \A i \in 1..Len(reqs) : reqs[i].at > 0

\* C10: for uptime_seconds >= 0, uptime_human is the clock decomposition of
\* the whole seconds of uptime_seconds: m and s are in 0..59 and
\* h*3600 + m*60 + s is the floor of uptime_seconds.
C10_ClockDecomposition ==
    \A k \in Positions({"/api/metrics"}) :
        ResponseAt(k).body.uptime_seconds >= 0 =>
            LET text == ResponseAt(k).body.uptime_human
            IN  /\ HMSSplits(text) # {}
                /\ \A ij \in HMSSplits(text) :
                    /\ MinutesOf(text, ij) \in 0..59
                    /\ SecondsOf(text, ij) \in 0..59
                    /\ HoursOf(text, ij) * SecondsPerHour
                         + MinutesOf(text, ij) * SecondsPerMinute
                         + SecondsOf(text, ij)
                       = ResponseAt(k).body.uptime_seconds \div Resolution
====
